---------------------------- MODULE Spec2Model ----------------------------
(***************************************************************************)
(* The PTY session manager of src-tauri/src/terminal.rs, together with the *)
(* event channel and its consumer of src-tauri/src/lib.rs.                 *)
(*                                                                         *)
(* Callers invoke the tauri command handlers (terminal.rs 382-427); every  *)
(* handler locks the one Arc<Mutex<TerminalManager>> and keeps it until    *)
(* the TerminalManager method has returned.  Each registered session has   *)
(* a reader task on a blocking thread (start_reader_task) and a child      *)
(* process behind its PTY.  Each action is one step between two points at  *)
(* which the code can block or be overtaken by another thread.             *)
(***************************************************************************)
EXTENDS Naturals, Sequences, FiniteSets

\* ------------------------------------------------------------------ bounds
\* What comes from outside over a run: the commands invoked, the bytes the
\* children print and the children that exit by themselves, all sessions
\* together.
MaxStimuli == 3
\* Capacity of the event channel; lib.rs 142 sets 100, scaled down so that
\* the events of a run can fill it.
ChanCap == 1
\* Room of the kernel's PTY input queue, in bytes.
PtyCap == 1

\* ------------------------------------------------------------- constants
\* vec![0u8; 4096]: the reader's buffer; a read returns at most this many.
BufferSize == 4096
\* mpsc::channel::<()>(1): the shutdown channel holds one message.
ShutdownCap == 1

\* The frontend's concurrent invocations; they are interchangeable.
CallerOrder == <<"p1", "p2">>
Callers == {CallerOrder[i] : i \in 1 .. Len(CallerOrder)}
\* The ids Uuid::new_v4 hands out over a run, in this order.
Ids == {1, 2}
\* A terminal_id that no create has returned; it also stands for the empty id.
BogusId == 0
\* The byte string callers write.
WriteData == {<<"x", "y">>}
\* TerminalSize { rows: 24, cols: 80 }: the size create falls back to.
DefaultSize == <<24, 80>>
ResizeTo == {<<50, 120>>}
\* The k-th byte printed over a run.
OutByte(k) == k

VARIABLES
    pc,            \* caller -> where its handler stands
    op,            \* caller -> the command it runs: kind, id, data, size
    result,        \* caller -> what the handler returned
    rem,           \* caller -> bytes write_all has still to write
    manager,       \* holders of Arc<Mutex<TerminalManager>>
    rwWriter,      \* holders of terminals.write()
    rwReaders,     \* holders of terminals.read()
    terminals,     \* keys of the HashMap
    sessLock,      \* id -> holder of the session's Mutex<Terminal>
    masterLock,    \* id -> holder of the session's pty_master mutex
    shutdown_tx,   \* id -> "none" | "some" (Terminal.shutdown_tx) | "dropped"
    shutdownMsg,   \* id -> messages queued in the shutdown channel
    child,         \* id -> "none" | "running" | "exited" | "reaped"
    pty_size,      \* id -> <<rows, cols>>
    ptyOut,        \* id -> bytes printed by the child and not yet read
    produced,      \* number of bytes the children have printed
    ptyIn,         \* id -> every byte written to the PTY: <<caller, index, byte>>
    inRoom,        \* id -> free room of the PTY input queue
    rpc,           \* id -> where the reader task stands
    rbuf,          \* id -> the event the reader is about to send
    stopped,       \* id -> why the reader left its loop
    senderLock,    \* holders of event_sender (Arc<Mutex<mpsc::Sender>>)
    channel,       \* the event channel
    nextId,        \* number of ids generated so far, plus one
    stimuli,       \* number of stimuli the environment may still apply
    returned,      \* history: the ids create returned, in order
    closedOk,      \* history: ids for which close_terminal returned Ok
    closedLive,    \* history: ids close removed before their reader saw an end
    emitted,       \* history: id -> events enqueued under that id, in order
    readChunks,    \* history: id -> the chunks the reader's reads returned
    options,       \* the CreateTerminalOptions of a create: shell, env
    host,          \* the host: platform, files that exist, environment
    shell,         \* the local `shell` of create_terminal (line 74), once set
    cmd_env,       \* the environment of `cmd` when it is spawned (line 132)
    cmd_args       \* the arguments of `cmd` when it is spawned (lines 92-100)

callerVars == <<pc, op, result, rem, stimuli>>
lockVars == <<manager, rwWriter, rwReaders, sessLock, masterLock>>
sessVars == <<terminals, shutdown_tx, shutdownMsg, pty_size>>
ptyVars == <<child, ptyOut, produced, ptyIn, inRoom>>
readerVars == <<rpc, rbuf, stopped, readChunks>>
chanVars == <<senderLock, channel, emitted>>
histVars == <<nextId, returned, closedOk, closedLive>>
resolverVars == <<options, host, shell, cmd_env, cmd_args>>
sessionVars == <<callerVars, lockVars, sessVars, ptyVars, readerVars, chanVars, histVars>>
vars == <<sessionVars, resolverVars>>

\* ----------------------------------------------------------------- values
NoOp == [kind |-> "none", id |-> BogusId, data |-> <<>>, size |-> DefaultSize]
NoResult == [tag |-> "none", id |-> BogusId]
Ok == [tag |-> "Ok", id |-> BogusId]
OkId(id) == [tag |-> "Ok", id |-> id]
\* Err(format!("Terminal {} not found", terminal_id))
NotFound == [tag |-> "NotFound", id |-> BogusId]
\* Err("Failed to create PTY" | "Failed to spawn shell" | "Failed to clone
\* reader" | "Failed to take writer")
SetupError(id) == [tag |-> "SetupError", id |-> id]
\* Err("Failed to write to terminal" | "Failed to flush terminal" |
\* "Failed to resize terminal")
IoError == [tag |-> "IoError", id |-> BogusId]

NoEvent == [type |-> "none", id |-> BogusId, data |-> <<>>]
Output(id, data) == [type |-> "Output", id |-> id, data |-> data]
Exit(id) == [type |-> "Exit", id |-> id, data |-> <<>>]
Error(id) == [type |-> "Error", id |-> id, data |-> <<>>]

Min(a, b) == IF a < b THEN a ELSE b

\* Option<T>: None, or Some(x).
None == <<>>
Some(x) == <<x>>

\* ------------------------------------------------ the command of a create
\* The paths get_shell_command probes (lines 265, 276, 278, 280, 285).
PowerShellPath == "C:\\Windows\\System32\\WindowsPowerShell\\v1.0\\powershell.exe"
BinBash == "/bin/bash"
UsrBinBash == "/usr/bin/bash"
UsrLocalBinBash == "/usr/local/bin/bash"
BinSh == "/bin/sh"
\* Values SHELL can have: a file that may exist, and one that never does.
BinZsh == "/bin/zsh"
GoneZsh == "/opt/gone/zsh"
\* An explicit shell of a caller whose home directory is /home/bashir.
HomeBashirZsh == "/home/bashir/zsh"
Paths == {PowerShellPath, BinBash, UsrBinBash, UsrLocalBinBash, BinSh, BinZsh}

\* An environment maps each name to None (unset) or Some(value).
EnvNames == {"TERM", "PATH", "SHELL"}
Unset == [n \in EnvNames |-> None]

\* The environments of the host process.
HostEnvs ==
    {[TERM |-> t, PATH |-> pa, SHELL |-> s] :
        t \in {None, Some("vt100")},
        pa \in {None, Some("/usr/bin:/bin")},
        s \in {None, Some(BinZsh), Some(GoneZsh)}}
Hosts == [windows : BOOLEAN, exists : SUBSET Paths, env : HostEnvs]

\* CreateTerminalOptions (lines 32-37): shell and env; cwd and size play no
\* part in the command's name and environment.
CallerEnvs ==
    {[TERM |-> t, PATH |-> pa, SHELL |-> None] :
        t \in {None, Some("dumb")}, pa \in {None, Some("/caller/bin")}}
Options ==
    [shell : {None, Some("fish"), Some(BinSh), Some(HomeBashirZsh)},
     env : {None} \cup {Some(e) : e \in CallerEnvs}]

\* get_shell_command taking the explicit shell only when that file exists.
GetShellCommand_ProbeExplicit(o, h) ==
    IF o.shell # None /\ o.shell[1] \in h.exists THEN o.shell[1]
    ELSE IF h.windows THEN "cmd.exe"
    ELSE "sh"
\* get_shell_command with lines 283 and 285 in the other order.
GetShellCommand_ShBeforeEnv(o, h) ==
    IF o.shell # None THEN o.shell[1]
    ELSE IF h.windows
    THEN IF PowerShellPath \in h.exists THEN "powershell.exe" ELSE "cmd.exe"
    ELSE IF BinBash \in h.exists THEN BinBash
    ELSE IF UsrBinBash \in h.exists THEN UsrBinBash
    ELSE IF UsrLocalBinBash \in h.exists THEN UsrLocalBinBash
    ELSE IF BinSh \in h.exists THEN BinSh
    ELSE IF h.env["SHELL"] # None THEN h.env["SHELL"][1]
    ELSE "sh"
\* get_shell_command (lines 257-293).  std::env::var is Ok when the variable
\* is set; its value is returned as it is.
GetShellCommand(o, h) ==
    IF o.shell # None THEN o.shell[1]
    ELSE IF h.windows
    THEN IF PowerShellPath \in h.exists THEN "powershell.exe" ELSE "cmd.exe"
    ELSE IF BinBash \in h.exists THEN BinBash
    ELSE IF UsrBinBash \in h.exists THEN UsrBinBash
    ELSE IF UsrLocalBinBash \in h.exists THEN UsrLocalBinBash
    ELSE IF h.env["SHELL"] # None THEN h.env["SHELL"][1]
    ELSE IF BinSh \in h.exists THEN BinSh
    ELSE "sh"

\* Lines 92-100: CommandBuilder::new(&shell); a command starts from the
\* environment of the host process.
BaseEnv(h) == h.env

\* Lines 107-116: every pair of options.env is set on the command; has_path
\* tells whether one of the keys was PATH.
WithOverrides(env, o) ==
    IF o.env = None THEN env
    ELSE [n \in EnvNames |-> IF o.env[1][n] # None THEN o.env[1][n] ELSE env[n]]
HasPath(o) == o.env # None /\ o.env[1]["PATH"] # None

\* Lines 107-126: the overrides, then TERM, then PATH from std::env::var
\* when the caller gave none and the host has one.
CommandEnv(o, h) ==
    LET withTerm == [WithOverrides(BaseEnv(h), o) EXCEPT !["TERM"] = Some("xterm-256color")]
    IN  IF ~ HasPath(o) /\ h.env["PATH"] # None
        THEN [withTerm EXCEPT !["PATH"] = h.env["PATH"]]
        ELSE withTerm

\* The characters of a command string, one by one.
Spell(s) ==
    CASE s = BinBash -> <<"/", "b", "i", "n", "/", "b", "a", "s", "h">>
      [] s = UsrBinBash -> <<"/", "u", "s", "r", "/", "b", "i", "n", "/", "b", "a", "s", "h">>
      [] s = UsrLocalBinBash ->
            <<"/", "u", "s", "r", "/", "l", "o", "c", "a", "l", "/", "b", "i", "n", "/",
              "b", "a", "s", "h">>
      [] s = BinSh -> <<"/", "b", "i", "n", "/", "s", "h">>
      [] s = BinZsh -> <<"/", "b", "i", "n", "/", "z", "s", "h">>
      [] s = GoneZsh -> <<"/", "o", "p", "t", "/", "g", "o", "n", "e", "/", "z", "s", "h">>
      [] s = HomeBashirZsh ->
            <<"/", "h", "o", "m", "e", "/", "b", "a", "s", "h", "i", "r", "/", "z", "s", "h">>
      [] s = "fish" -> <<"f", "i", "s", "h">>
      [] s = "sh" -> <<"s", "h">>
      [] s = "bash" -> <<"b", "a", "s", "h">>
      [] s = "cmd.exe" -> <<"c", "m", "d", ".", "e", "x", "e">>
      [] s = "powershell.exe" ->
            <<"p", "o", "w", "e", "r", "s", "h", "e", "l", "l", ".", "e", "x", "e">>

\* str::contains: the pattern occurs at some position of the text.
Contains(text, pat) ==
    \E i \in 1..(Len(text) + 1) :
        /\ i + Len(pat) - 1 <= Len(text)
        /\ SubSeq(text, i, i + Len(pat) - 1) = pat

\* Lines 92-100: the arguments of the command: -i and -l when the shell's
\* string contains "bash", none otherwise.
CommandArgs(sh) ==
    IF Contains(Spell(sh), Spell("bash")) THEN <<"-i", "-l">> ELSE <<>>

\* The sessions' model takes one create like another: default options on a
\* host that has /bin/bash, and no command looked at.
NoCommand ==
    /\ options = [shell |-> None, env |-> None]
    /\ host = [windows |-> FALSE, exists |-> {BinBash, BinSh},
               env |-> [TERM |-> None, PATH |-> Some("/usr/bin:/bin"), SHELL |-> None]]
    /\ shell = None
    /\ cmd_env = None
    /\ cmd_args = None

\* A lock is the set of its holders.  tokio::sync::Mutex::lock completes
\* only when nobody holds the mutex.
MutexFree_Broken(holders) == TRUE
MutexFree(holders) == holders = {}

\* tokio::sync::RwLock: read() needs no writer, write() needs nobody.
CanRead == rwWriter = {}
CanWrite == rwWriter = {} /\ rwReaders = {}

\* TerminalManager::new (lines 56-61): an empty registry; nothing runs.
\* budget bounds the commands invoked, bytes printed and children exiting.
NewManager(budget) ==
    /\ pc = [p \in Callers |-> "idle"]
    /\ op = [p \in Callers |-> NoOp]
    /\ result = [p \in Callers |-> NoResult]
    /\ rem = [p \in Callers |-> <<>>]
    /\ manager = {}
    /\ rwWriter = {}
    /\ rwReaders = {}
    /\ terminals = {}
    /\ sessLock = [i \in Ids |-> {}]
    /\ masterLock = [i \in Ids |-> {}]
    /\ shutdown_tx = [i \in Ids |-> "none"]
    /\ shutdownMsg = [i \in Ids |-> 0]
    /\ child = [i \in Ids |-> "none"]
    /\ pty_size = [i \in Ids |-> DefaultSize]
    /\ ptyOut = [i \in Ids |-> <<>>]
    /\ produced = 0
    /\ ptyIn = [i \in Ids |-> <<>>]
    /\ inRoom = [i \in Ids |-> PtyCap]
    /\ rpc = [i \in Ids |-> "none"]
    /\ rbuf = [i \in Ids |-> NoEvent]
    /\ stopped = [i \in Ids |-> "no"]
    /\ senderLock = {}
    /\ channel = <<>>
    /\ nextId = 1
    /\ stimuli = budget
    /\ returned = <<>>
    /\ closedOk = {}
    /\ closedLive = {}
    /\ emitted = [i \in Ids |-> <<>>]
    /\ readChunks = [i \in Ids |-> <<>>]

Init == NewManager(MaxStimuli) /\ NoCommand

\* ------------------------------------------------------- command handlers
\* A handler's result reaches its caller before anything else happens: no
\* other step is taken while a result is on its way.
NoneDone == \A p \in Callers : pc[p] # "done"

\* The ids a caller can name: one nobody returned, or one create returned.
KnownIds == {BogusId} \cup {returned[i] : i \in 1 .. Len(returned)}

\* let manager = state.lock().await;  (lines 387, 397, 416, 425)
FirstStep(kind) ==
    CASE kind = "create" -> "create_setup"
      [] kind = "write" -> "write_lookup"
      [] kind = "resize" -> "resize_lookup"
      [] kind = "close" -> "close_remove"

\* Callers being interchangeable, the idle one that comes first invokes.
FirstIdle(p) ==
    \A i, j \in 1 .. Len(CallerOrder) :
        (CallerOrder[j] = p /\ i < j) => pc[CallerOrder[i]] # "idle"

\* A command is invoked; its handler takes the manager mutex at once when
\* it is free and waits for it otherwise.
Invoke(p, kind, id, data, size) ==
    /\ NoneDone
    /\ pc[p] = "idle"
    /\ FirstIdle(p)
    /\ stimuli > 0
    /\ stimuli' = stimuli - 1
    /\ op' = [op EXCEPT ![p] = [kind |-> kind, id |-> id, data |-> data, size |-> size]]
    /\ IF MutexFree(manager)
       THEN /\ manager' = manager \cup {p}
            /\ pc' = [pc EXCEPT ![p] = FirstStep(kind)]
       ELSE /\ manager' = manager
            /\ pc' = [pc EXCEPT ![p] = "manager"]
    /\ UNCHANGED <<result, rem, rwWriter, rwReaders, sessLock, masterLock, sessVars,
                   ptyVars, readerVars, chanVars, histVars>>
    /\ UNCHANGED resolverVars

\* The frontend invokes a command.
\* A create is invoked only while an id is left for it to draw.
PendingCreates == {q \in Callers : op[q].kind = "create" /\ pc[q] \in {"manager", "create_setup"}}

CallCreate(p) ==
    /\ nextId + Cardinality(PendingCreates) \in Ids
    /\ Invoke(p, "create", BogusId, <<>>, DefaultSize)
CallWrite(p) == \E id \in KnownIds, d \in WriteData : Invoke(p, "write", id, d, DefaultSize)
CallResize(p) == \E id \in KnownIds, s \in ResizeTo : Invoke(p, "resize", id, <<>>, s)
CallClose(p) == \E id \in KnownIds : Invoke(p, "close", id, <<>>, DefaultSize)

\* state.lock().await completes for a handler that had to wait.
LockManager(p) ==
    /\ NoneDone
    /\ pc[p] = "manager"
    /\ MutexFree(manager)
    /\ manager' = manager \cup {p}
    /\ pc' = [pc EXCEPT ![p] = FirstStep(op[p].kind)]
    /\ UNCHANGED <<op, result, rem, stimuli, rwWriter, rwReaders, sessLock,
                   masterLock, sessVars, ptyVars, readerVars, chanVars, histVars>>
    /\ UNCHANGED resolverVars

\* The handler returns: every guard it holds is dropped.
Finish(p, res) ==
    /\ pc' = [pc EXCEPT ![p] = "done"]
    /\ result' = [result EXCEPT ![p] = res]
    /\ rem' = [rem EXCEPT ![p] = <<>>]
    /\ manager' = manager \ {p}
    /\ rwWriter' = rwWriter \ {p}
    /\ rwReaders' = rwReaders \ {p}
    /\ sessLock' = [i \in Ids |-> sessLock[i] \ {p}]
    /\ masterLock' = [i \in Ids |-> masterLock[i] \ {p}]

\* The caller takes the result; it may invoke the next command.
Return(p) ==
    /\ pc[p] = "done"
    /\ pc' = [pc EXCEPT ![p] = "idle"]
    /\ op' = [op EXCEPT ![p] = NoOp]
    /\ result' = [result EXCEPT ![p] = NoResult]
    /\ UNCHANGED <<rem, stimuli, lockVars, sessVars, ptyVars, readerVars,
                   chanVars, histVars>>
    /\ UNCHANGED resolverVars

\* ---------------------------------------------------------- create_terminal
\* Uuid::new_v4(): 122 random bits.  The library's contract, that no two
\* calls return the same value, is taken as given: the n-th id is n.
NewTerminalId_Reuse == IF \E i \in Ids : i \notin terminals
                       THEN CHOOSE i \in Ids : i \notin terminals /\ \A j \in Ids : j \notin terminals => i <= j
                       ELSE nextId
NewTerminalId == nextId

\* Lines 68-149 failing at openpty or spawn_command (no child yet), or at
\* try_clone_reader or take_writer (the child is running); `?` returns.
CreateFailAt_Registered(p, stage) ==
    /\ NoneDone
    /\ pc[p] = "create_setup"
    /\ NewTerminalId \in Ids
    /\ nextId' = nextId + 1
    /\ op' = [op EXCEPT ![p].id = NewTerminalId]
    /\ child' = [child EXCEPT ![NewTerminalId] =
                    IF stage \in {"clone_reader", "take_writer"} THEN "running" ELSE @]
    /\ terminals' = terminals \cup {NewTerminalId}
    /\ Finish(p, SetupError(NewTerminalId))
    /\ UNCHANGED <<stimuli, shutdown_tx, shutdownMsg, pty_size, ptyOut, produced,
                   ptyIn, inRoom, readerVars, chanVars, returned, closedOk, closedLive>>
    /\ UNCHANGED resolverVars
CreateFailAt(p, stage) ==
    /\ NoneDone
    /\ pc[p] = "create_setup"
    /\ NewTerminalId \in Ids
    /\ nextId' = nextId + 1
    /\ op' = [op EXCEPT ![p].id = NewTerminalId]
    /\ child' = [child EXCEPT ![NewTerminalId] =
                    IF stage \in {"clone_reader", "take_writer"} THEN "running" ELSE @]
    /\ Finish(p, SetupError(NewTerminalId))
    /\ UNCHANGED <<stimuli, sessVars, ptyOut, produced, ptyIn, inRoom,
                   readerVars, chanVars, returned, closedOk, closedLive>>
    /\ UNCHANGED resolverVars

CreateFail(p) == \E stage \in {"openpty", "spawn", "clone_reader", "take_writer"} : CreateFailAt(p, stage)

\* Lines 68-157 succeeding: the PTY is open, the child runs, the Terminal
\* value with Some(shutdown_tx) is built.
CreateSetup(p) ==
    /\ NoneDone
    /\ pc[p] = "create_setup"
    /\ NewTerminalId \in Ids
    /\ nextId' = nextId + 1
    /\ op' = [op EXCEPT ![p].id = NewTerminalId]
    /\ child' = [child EXCEPT ![NewTerminalId] = "running"]
    /\ pc' = [pc EXCEPT ![p] = "create_insert"]
    /\ UNCHANGED <<result, rem, stimuli, lockVars, sessVars, ptyOut, produced,
                   ptyIn, inRoom, readerVars, chanVars, returned, closedOk, closedLive>>
    /\ UNCHANGED resolverVars

\* CreateInsert without line 164: the id is inserted, no reader starts.
CreateInsert_NoReader(p) ==
    /\ NoneDone
    /\ pc[p] = "create_insert"
    /\ CanWrite
    /\ rwWriter' = rwWriter \cup {p}
    /\ terminals' = terminals \cup {op[p].id}
    /\ shutdown_tx' = [shutdown_tx EXCEPT ![op[p].id] = "some"]
    /\ pty_size' = [pty_size EXCEPT ![op[p].id] = op[p].size]
    /\ pc' = [pc EXCEPT ![p] = "create_return"]
    /\ UNCHANGED <<op, result, rem, stimuli, manager, rwReaders, sessLock,
                   masterLock, shutdownMsg, ptyVars, readerVars, chanVars, histVars>>
    /\ UNCHANGED resolverVars

\* CreateInsert without line 161: the reader starts, nothing is inserted.
CreateInsert_NoInsert(p) ==
    /\ NoneDone
    /\ pc[p] = "create_insert"
    /\ CanWrite
    /\ rwWriter' = rwWriter \cup {p}
    /\ terminals' = terminals
    /\ shutdown_tx' = [shutdown_tx EXCEPT ![op[p].id] = "some"]
    /\ pty_size' = [pty_size EXCEPT ![op[p].id] = op[p].size]
    /\ rpc' = [rpc EXCEPT ![op[p].id] = "top"]
    /\ pc' = [pc EXCEPT ![p] = "create_return"]
    /\ UNCHANGED <<op, result, rem, stimuli, manager, rwReaders, sessLock,
                   masterLock, shutdownMsg, ptyVars, rbuf, stopped, readChunks,
                   chanVars, histVars>>
    /\ UNCHANGED resolverVars

\* Lines 160-164: terminals.write().await, insert, start_reader_task
\* (spawn_blocking).  The write guard lives until the function returns.
CreateInsert(p) ==
    /\ NoneDone
    /\ pc[p] = "create_insert"
    /\ CanWrite
    /\ rwWriter' = rwWriter \cup {p}
    /\ terminals' = terminals \cup {op[p].id}
    /\ shutdown_tx' = [shutdown_tx EXCEPT ![op[p].id] = "some"]
    /\ pty_size' = [pty_size EXCEPT ![op[p].id] = op[p].size]
    /\ rpc' = [rpc EXCEPT ![op[p].id] = "top"]
    /\ pc' = [pc EXCEPT ![p] = "create_return"]
    /\ UNCHANGED <<op, result, rem, stimuli, manager, rwReaders, sessLock,
                   masterLock, shutdownMsg, ptyVars, rbuf, stopped, readChunks,
                   chanVars, histVars>>
    /\ UNCHANGED resolverVars

\* Line 166: Ok(CreateTerminalResponse { terminal_id }).
CreateReturn(p) ==
    /\ NoneDone
    /\ pc[p] = "create_return"
    /\ returned' = Append(returned, op[p].id)
    /\ Finish(p, OkId(op[p].id))
    /\ UNCHANGED <<op, stimuli, sessVars, ptyVars, readerVars, chanVars, nextId,
                   closedOk, closedLive>>
    /\ UNCHANGED resolverVars

\* ----------------------------------------------------------- close_terminal
\* Lines 235-237 and 251-253: terminals.write().await; remove(&terminal_id).
CloseRemove_Keep(p) ==
    /\ NoneDone
    /\ pc[p] = "close_remove"
    /\ CanWrite
    /\ IF op[p].id \in terminals
       THEN /\ rwWriter' = rwWriter \cup {p}
            /\ terminals' = terminals
            /\ pc' = [pc EXCEPT ![p] = "close_lock"]
            /\ UNCHANGED <<result, rem, manager, rwReaders, sessLock, masterLock>>
       ELSE /\ Finish(p, NotFound)
            /\ UNCHANGED terminals
    /\ closedLive' = IF op[p].id \in terminals /\ stopped[op[p].id] = "no"
                     THEN closedLive \cup {op[p].id} ELSE closedLive
    /\ UNCHANGED <<op, stimuli, shutdown_tx, shutdownMsg, pty_size, ptyVars,
                   readerVars, chanVars, nextId, returned, closedOk>>
    /\ UNCHANGED resolverVars
CloseRemove_OkOnMiss(p) ==
    /\ NoneDone
    /\ pc[p] = "close_remove"
    /\ CanWrite
    /\ IF op[p].id \in terminals
       THEN /\ rwWriter' = rwWriter \cup {p}
            /\ terminals' = terminals \ {op[p].id}
            /\ pc' = [pc EXCEPT ![p] = "close_lock"]
            /\ UNCHANGED <<result, rem, manager, rwReaders, sessLock, masterLock>>
       ELSE /\ Finish(p, Ok)
            /\ UNCHANGED terminals
    /\ closedLive' = IF op[p].id \in terminals /\ stopped[op[p].id] = "no"
                     THEN closedLive \cup {op[p].id} ELSE closedLive
    /\ UNCHANGED <<op, stimuli, shutdown_tx, shutdownMsg, pty_size, ptyVars,
                   readerVars, chanVars, nextId, returned, closedOk>>
    /\ UNCHANGED resolverVars
CloseRemove(p) ==
    /\ NoneDone
    /\ pc[p] = "close_remove"
    /\ CanWrite
    /\ IF op[p].id \in terminals
       THEN /\ rwWriter' = rwWriter \cup {p}
            /\ terminals' = terminals \ {op[p].id}
            /\ pc' = [pc EXCEPT ![p] = "close_lock"]
            /\ UNCHANGED <<result, rem, manager, rwReaders, sessLock, masterLock>>
       ELSE /\ Finish(p, NotFound)
            /\ UNCHANGED terminals
    /\ closedLive' = IF op[p].id \in terminals /\ stopped[op[p].id] = "no"
                     THEN closedLive \cup {op[p].id} ELSE closedLive
    /\ UNCHANGED <<op, stimuli, shutdown_tx, shutdownMsg, pty_size, ptyVars,
                   readerVars, chanVars, nextId, returned, closedOk>>
    /\ UNCHANGED resolverVars

\* Line 238: terminal_arc.lock().await.
CloseLockSession(p) ==
    /\ NoneDone
    /\ pc[p] = "close_lock"
    /\ MutexFree(sessLock[op[p].id])
    /\ sessLock' = [sessLock EXCEPT ![op[p].id] = @ \cup {p}]
    /\ pc' = [pc EXCEPT ![p] = "close_signal"]
    /\ UNCHANGED <<op, result, rem, stimuli, manager, rwWriter, rwReaders,
                   masterLock, sessVars, ptyVars, readerVars, chanVars, histVars>>
    /\ UNCHANGED resolverVars

\* CloseSignal sending through the sender without taking it out of the
\* Terminal.
CloseSignal_NoTake(p) ==
    /\ NoneDone
    /\ pc[p] = "close_signal"
    /\ shutdownMsg[op[p].id] < ShutdownCap \/ rpc[op[p].id] = "done"
    /\ shutdownMsg' = [shutdownMsg EXCEPT ![op[p].id] =
                          IF rpc[op[p].id] = "done" THEN @ ELSE @ + 1]
    /\ pc' = [pc EXCEPT ![p] = "close_kill"]
    /\ UNCHANGED <<op, result, rem, stimuli, lockVars, terminals, shutdown_tx,
                   pty_size, ptyVars, readerVars, chanVars, histVars>>
    /\ UNCHANGED resolverVars

\* Lines 241-243: shutdown_tx.take(), then send(()).await, which completes
\* when the channel has room or its receiver is gone; the taken sender is
\* dropped at the end of the block.
CloseSignal(p) ==
    /\ NoneDone
    /\ pc[p] = "close_signal"
    /\ IF shutdown_tx[op[p].id] = "some"
       THEN /\ shutdownMsg[op[p].id] < ShutdownCap \/ rpc[op[p].id] = "done"
            /\ shutdown_tx' = [shutdown_tx EXCEPT ![op[p].id] = "dropped"]
            /\ shutdownMsg' = [shutdownMsg EXCEPT ![op[p].id] =
                                  IF rpc[op[p].id] = "done" THEN @ ELSE @ + 1]
       ELSE UNCHANGED <<shutdown_tx, shutdownMsg>>
    /\ pc' = [pc EXCEPT ![p] = "close_kill"]
    /\ UNCHANGED <<op, result, rem, stimuli, lockVars, terminals, pty_size,
                   ptyVars, readerVars, chanVars, histVars>>
    /\ UNCHANGED resolverVars

\* CloseKill without line 248: the child is killed but never waited for.
CloseKill_NoWait(p) ==
    /\ NoneDone
    /\ pc[p] = "close_kill"
    /\ child' = [child EXCEPT ![op[p].id] = "exited"]
    /\ closedOk' = closedOk \cup {op[p].id}
    /\ Finish(p, Ok)
    /\ UNCHANGED <<op, stimuli, sessVars, ptyOut, produced, ptyIn, inRoom,
                   readerVars, chanVars, nextId, returned, closedLive>>
    /\ UNCHANGED resolverVars

\* Lines 246-250: child.lock().await, kill(), wait(), Ok(()).  Only close
\* ever locks the child mutex, and it holds the session lock when it does.
CloseKill(p) ==
    /\ NoneDone
    /\ pc[p] = "close_kill"
    /\ child' = [child EXCEPT ![op[p].id] = "reaped"]
    /\ closedOk' = closedOk \cup {op[p].id}
    /\ Finish(p, Ok)
    /\ UNCHANGED <<op, stimuli, sessVars, ptyOut, produced, ptyIn, inRoom,
                   readerVars, chanVars, nextId, returned, closedLive>>
    /\ UNCHANGED resolverVars

\* -------------------------------------------------------- write_to_terminal
\* Lines 179-181 and 191-193: terminals.read().await; get(&terminal_id).
WriteLookup(p) ==
    /\ NoneDone
    /\ pc[p] = "write_lookup"
    /\ CanRead
    /\ IF op[p].id \in terminals
       THEN /\ rwReaders' = rwReaders \cup {p}
            /\ pc' = [pc EXCEPT ![p] = "write_lock"]
            /\ UNCHANGED <<result, rem, manager, rwWriter, sessLock, masterLock>>
       ELSE Finish(p, NotFound)
    /\ UNCHANGED <<op, stimuli, sessVars, ptyVars, readerVars, chanVars, histVars>>
    /\ UNCHANGED resolverVars

\* Line 182: terminal_arc.lock().await.
WriteLockSession(p) ==
    /\ NoneDone
    /\ pc[p] = "write_lock"
    /\ MutexFree(sessLock[op[p].id])
    /\ sessLock' = [sessLock EXCEPT ![op[p].id] = @ \cup {p}]
    /\ rem' = [rem EXCEPT ![p] = op[p].data]
    /\ pc' = [pc EXCEPT ![p] = "write_all"]
    /\ UNCHANGED <<op, result, stimuli, manager, rwWriter, rwReaders, masterLock,
                   sessVars, ptyVars, readerVars, chanVars, histVars>>
    /\ UNCHANGED resolverVars

\* Lines 183-184: write_all loops over write(2); each pass needs room in
\* the PTY input queue and moves the next byte of data into it.
WriteAll(p) ==
    /\ NoneDone
    /\ pc[p] = "write_all"
    /\ inRoom[op[p].id] > 0
    /\ ptyIn' = [ptyIn EXCEPT ![op[p].id] =
                    Append(@, <<p, Len(op[p].data) - Len(rem[p]) + 1, Head(rem[p])>>)]
    /\ inRoom' = [inRoom EXCEPT ![op[p].id] = @ - 1]
    /\ rem' = [rem EXCEPT ![p] = Tail(@)]
    /\ pc' = [pc EXCEPT ![p] = IF Len(rem[p]) = 1 THEN "write_flush" ELSE "write_all"]
    /\ UNCHANGED <<op, result, stimuli, lockVars, sessVars, child, ptyOut, produced,
                   readerVars, chanVars, histVars>>
    /\ UNCHANGED resolverVars

\* Lines 185 and 188: write_all or flush returns an error; `?` returns it.
WriteFail_Unregister(p) ==
    /\ NoneDone
    /\ pc[p] \in {"write_all", "write_flush"}
    /\ terminals' = terminals \ {op[p].id}
    /\ Finish(p, IoError)
    /\ UNCHANGED <<op, stimuli, shutdown_tx, shutdownMsg, pty_size, ptyVars,
                   readerVars, chanVars, histVars>>
    /\ UNCHANGED resolverVars
WriteFail(p) ==
    /\ NoneDone
    /\ pc[p] \in {"write_all", "write_flush"}
    /\ Finish(p, IoError)
    /\ UNCHANGED <<op, stimuli, sessVars, ptyVars, readerVars, chanVars, histVars>>
    /\ UNCHANGED resolverVars

\* Lines 186-190: flush succeeds; Ok(()).
WriteFlush(p) ==
    /\ NoneDone
    /\ pc[p] = "write_flush"
    /\ Finish(p, Ok)
    /\ UNCHANGED <<op, stimuli, sessVars, ptyVars, readerVars, chanVars, histVars>>
    /\ UNCHANGED resolverVars

\* ---------------------------------------------------------- resize_terminal
\* Lines 212-214 and 228-230: terminals.read().await; get(&terminal_id).
ResizeLookup(p) ==
    /\ NoneDone
    /\ pc[p] = "resize_lookup"
    /\ CanRead
    /\ IF op[p].id \in terminals
       THEN /\ rwReaders' = rwReaders \cup {p}
            /\ pc' = [pc EXCEPT ![p] = "resize_lock"]
            /\ UNCHANGED <<result, rem, manager, rwWriter, sessLock, masterLock>>
       ELSE Finish(p, NotFound)
    /\ UNCHANGED <<op, stimuli, sessVars, ptyVars, readerVars, chanVars, histVars>>
    /\ UNCHANGED resolverVars

\* ResizeLockSession taking the PTY-control lock together with the session
\* lock, ahead of line 223.
ResizeLockSession_MasterFirst(p) ==
    /\ NoneDone
    /\ pc[p] = "resize_lock"
    /\ MutexFree(sessLock[op[p].id])
    /\ sessLock' = [sessLock EXCEPT ![op[p].id] = @ \cup {p}]
    /\ masterLock' = [masterLock EXCEPT ![op[p].id] = @ \cup {p}]
    /\ pc' = [pc EXCEPT ![p] = "resize_master"]
    /\ UNCHANGED <<op, result, rem, stimuli, manager, rwWriter, rwReaders,
                   sessVars, ptyVars, readerVars, chanVars, histVars>>
    /\ UNCHANGED resolverVars

\* Line 215: terminal_arc.lock().await.
ResizeLockSession(p) ==
    /\ NoneDone
    /\ pc[p] = "resize_lock"
    /\ MutexFree(sessLock[op[p].id])
    /\ sessLock' = [sessLock EXCEPT ![op[p].id] = @ \cup {p}]
    /\ pc' = [pc EXCEPT ![p] = "resize_master"]
    /\ UNCHANGED <<op, result, rem, stimuli, manager, rwWriter, rwReaders,
                   masterLock, sessVars, ptyVars, readerVars, chanVars, histVars>>
    /\ UNCHANGED resolverVars

\* Line 223: terminal.pty_master.lock().await.
ResizeLockMaster(p) ==
    /\ NoneDone
    /\ pc[p] = "resize_master"
    /\ MutexFree(masterLock[op[p].id])
    /\ masterLock' = [masterLock EXCEPT ![op[p].id] = @ \cup {p}]
    /\ pc' = [pc EXCEPT ![p] = "resize_apply"]
    /\ UNCHANGED <<op, result, rem, stimuli, manager, rwWriter, rwReaders,
                   sessLock, sessVars, ptyVars, readerVars, chanVars, histVars>>
    /\ UNCHANGED resolverVars

\* ResizeApply that also discards what the child printed and nobody read.
ResizeApply_Flush(p) ==
    /\ NoneDone
    /\ pc[p] = "resize_apply"
    /\ pty_size' = [pty_size EXCEPT ![op[p].id] = op[p].size]
    /\ ptyOut' = [ptyOut EXCEPT ![op[p].id] = <<>>]
    /\ Finish(p, Ok)
    /\ UNCHANGED <<op, stimuli, terminals, shutdown_tx, shutdownMsg, child, produced,
                   ptyIn, inRoom, readerVars, chanVars, histVars>>
    /\ UNCHANGED resolverVars

\* Lines 224-227: pty_master.resize(pty_size) succeeds; Ok(()).
ResizeApply(p) ==
    /\ NoneDone
    /\ pc[p] = "resize_apply"
    /\ pty_size' = [pty_size EXCEPT ![op[p].id] = op[p].size]
    /\ Finish(p, Ok)
    /\ UNCHANGED <<op, stimuli, terminals, shutdown_tx, shutdownMsg, ptyVars,
                   readerVars, chanVars, histVars>>
    /\ UNCHANGED resolverVars

\* Line 226: resize returns an error; `?` returns it.
ResizeFail(p) ==
    /\ NoneDone
    /\ pc[p] = "resize_apply"
    /\ Finish(p, IoError)
    /\ UNCHANGED <<op, stimuli, sessVars, ptyVars, readerVars, chanVars, histVars>>
    /\ UNCHANGED resolverVars

\* ------------------------------------------------------- start_reader_task
\* The PTY is open while the Terminal value or the reader's handle lives.
PtyOpen(id) ==
    \/ id \in terminals
    \/ rpc[id] \notin {"none", "done"}
    \/ \E p \in Callers : op[p].id = id /\ pc[p] \in {"create_insert", "create_return",
                                                     "close_lock", "close_signal", "close_kill"}

\* ReaderShutdown that reports the end of the session with an Exit event
\* before it leaves the loop.
ReaderShutdown_EmitExit(id) ==
    /\ NoneDone
    /\ rpc[id] = "top"
    /\ shutdownMsg[id] > 0 \/ shutdown_tx[id] = "dropped"
    /\ shutdownMsg' = [shutdownMsg EXCEPT ![id] = IF @ > 0 THEN @ - 1 ELSE @]
    /\ stopped' = [stopped EXCEPT ![id] = "shutdown"]
    /\ rbuf' = [rbuf EXCEPT ![id] = Exit(id)]
    /\ rpc' = [rpc EXCEPT ![id] = "lock_sender"]
    /\ UNCHANGED <<callerVars, lockVars, terminals, shutdown_tx, pty_size, ptyVars,
                   readChunks, chanVars, histVars>>
    /\ UNCHANGED resolverVars

\* ReaderShutdown that also interrupts a read that is under way.
ReaderShutdown_InRead(id) ==
    /\ NoneDone
    /\ rpc[id] \in {"top", "read"}
    /\ shutdownMsg[id] > 0 \/ shutdown_tx[id] = "dropped"
    /\ shutdownMsg' = [shutdownMsg EXCEPT ![id] = IF @ > 0 THEN @ - 1 ELSE @]
    /\ stopped' = [stopped EXCEPT ![id] = "shutdown"]
    /\ rpc' = [rpc EXCEPT ![id] = "cleanup"]
    /\ UNCHANGED <<callerVars, lockVars, terminals, shutdown_tx, pty_size, ptyVars,
                   rbuf, readChunks, chanVars, histVars>>
    /\ UNCHANGED resolverVars

\* Lines 313-317: try_recv returns Ok(()) or Disconnected; break.
ReaderShutdown(id) ==
    /\ NoneDone
    /\ rpc[id] = "top"
    /\ shutdownMsg[id] > 0 \/ shutdown_tx[id] = "dropped"
    /\ shutdownMsg' = [shutdownMsg EXCEPT ![id] = IF @ > 0 THEN @ - 1 ELSE @]
    /\ stopped' = [stopped EXCEPT ![id] = "shutdown"]
    /\ rpc' = [rpc EXCEPT ![id] = "cleanup"]
    /\ UNCHANGED <<callerVars, lockVars, terminals, shutdown_tx, pty_size, ptyVars,
                   rbuf, readChunks, chanVars, histVars>>
    /\ UNCHANGED resolverVars

\* Line 316: try_recv returns Empty; the reader goes on to read.
ReaderPoll(id) ==
    /\ NoneDone
    /\ rpc[id] = "top"
    /\ shutdownMsg[id] = 0 /\ shutdown_tx[id] # "dropped"
    /\ rpc' = [rpc EXCEPT ![id] = "read"]
    /\ UNCHANGED <<callerVars, lockVars, sessVars, ptyVars, rbuf, stopped,
                   readChunks, chanVars, histVars>>
    /\ UNCHANGED resolverVars

\* Lines 321-331: read returns Ok(0) once the child is gone and nothing is
\* left to read; the Exit event is built.
ReaderReadEof(id) ==
    /\ NoneDone
    /\ rpc[id] = "read"
    /\ ptyOut[id] = <<>>
    /\ child[id] \in {"exited", "reaped"}
    /\ rbuf' = [rbuf EXCEPT ![id] = Exit(id)]
    /\ stopped' = [stopped EXCEPT ![id] = "eof"]
    /\ rpc' = [rpc EXCEPT ![id] = "lock_sender"]
    /\ UNCHANGED <<callerVars, lockVars, sessVars, ptyVars, readChunks, chanVars,
                   histVars>>
    /\ UNCHANGED resolverVars

\* Lines 333-335: read returns Ok(n), n > 0; data = buffer[..n].to_vec().
ReaderReadData_FirstByte(id) ==
    /\ NoneDone
    /\ rpc[id] = "read"
    /\ ptyOut[id] # <<>>
    /\ \E n \in 1 .. Min(BufferSize, Len(ptyOut[id])) :
          /\ rbuf' = [rbuf EXCEPT ![id] = Output(id, SubSeq(ptyOut[id], 1, 1))]
          /\ readChunks' = [readChunks EXCEPT ![id] = Append(@, SubSeq(ptyOut[id], 1, n))]
          /\ ptyOut' = [ptyOut EXCEPT ![id] = SubSeq(@, n + 1, Len(@))]
    /\ rpc' = [rpc EXCEPT ![id] = "lock_sender"]
    /\ UNCHANGED <<callerVars, lockVars, sessVars, child, produced, ptyIn, inRoom,
                   stopped, chanVars, histVars>>
    /\ UNCHANGED resolverVars
ReaderReadData(id) ==
    /\ NoneDone
    /\ rpc[id] = "read"
    /\ ptyOut[id] # <<>>
    /\ \E n \in 1 .. Min(BufferSize, Len(ptyOut[id])) :
          /\ rbuf' = [rbuf EXCEPT ![id] = Output(id, SubSeq(ptyOut[id], 1, n))]
          /\ readChunks' = [readChunks EXCEPT ![id] = Append(@, SubSeq(ptyOut[id], 1, n))]
          /\ ptyOut' = [ptyOut EXCEPT ![id] = SubSeq(@, n + 1, Len(@))]
    /\ rpc' = [rpc EXCEPT ![id] = "lock_sender"]
    /\ UNCHANGED <<callerVars, lockVars, sessVars, child, produced, ptyIn, inRoom,
                   stopped, chanVars, histVars>>
    /\ UNCHANGED resolverVars

\* Lines 353-355 and 365-366: read fails with WouldBlock; sleep, loop.
ReaderWouldBlock(id) ==
    /\ NoneDone
    /\ rpc[id] = "read"
    /\ ptyOut[id] = <<>>
    /\ child[id] = "running"
    /\ rpc' = [rpc EXCEPT ![id] = "top"]
    /\ UNCHANGED <<callerVars, lockVars, sessVars, ptyVars, rbuf, stopped,
                   readChunks, chanVars, histVars>>
    /\ UNCHANGED resolverVars

\* ReaderReadError taking the error for a passing one: sleep, loop.
ReaderReadError_Retry(id) ==
    /\ NoneDone
    /\ rpc[id] = "read"
    /\ ptyOut[id] = <<>>
    /\ child[id] \in {"exited", "reaped"}
    /\ rpc' = [rpc EXCEPT ![id] = "top"]
    /\ UNCHANGED <<callerVars, lockVars, sessVars, ptyVars, rbuf, stopped,
                   readChunks, chanVars, histVars>>
    /\ UNCHANGED resolverVars

\* Lines 353-363: read fails with another error (EIO is what a PTY master
\* gives on some platforms where others give Ok(0)); the Error event is built.
ReaderReadError(id) ==
    /\ NoneDone
    /\ rpc[id] = "read"
    /\ ptyOut[id] = <<>>
    /\ child[id] \in {"exited", "reaped"}
    /\ rbuf' = [rbuf EXCEPT ![id] = Error(id)]
    /\ stopped' = [stopped EXCEPT ![id] = "error"]
    /\ rpc' = [rpc EXCEPT ![id] = "lock_sender"]
    /\ UNCHANGED <<callerVars, lockVars, sessVars, ptyVars, readChunks, chanVars,
                   histVars>>
    /\ UNCHANGED resolverVars

\* Lines 325, 341, 357: event_sender.lock().await.
ReaderLockSender(id) ==
    /\ NoneDone
    /\ rpc[id] = "lock_sender"
    /\ MutexFree(senderLock)
    /\ senderLock' = senderLock \cup {id}
    /\ rpc' = [rpc EXCEPT ![id] = "send"]
    /\ UNCHANGED <<callerVars, lockVars, sessVars, ptyVars, rbuf, stopped,
                   readChunks, channel, emitted, histVars>>
    /\ UNCHANGED resolverVars

\* Lines 331, 352, 363: after Exit and Error the loop breaks; after Output
\* it goes round.
AfterSend_NoBreak(ev) == "top"
AfterSend(ev) == IF ev.type = "Output" THEN "top" ELSE "cleanup"

\* Lines 326-329, 342-345, 358-361: sender.send(event).await completes when
\* the channel has room; the guard on event_sender is dropped after it.
ReaderSend_TrySend(id) ==
    /\ NoneDone
    /\ rpc[id] = "send"
    /\ IF Len(channel) < ChanCap
       THEN /\ channel' = Append(channel, rbuf[id])
            /\ emitted' = [emitted EXCEPT ![rbuf[id].id] = Append(@, rbuf[id])]
       ELSE UNCHANGED <<channel, emitted>>
    /\ senderLock' = senderLock \ {id}
    /\ rbuf' = [rbuf EXCEPT ![id] = NoEvent]
    /\ rpc' = [rpc EXCEPT ![id] = AfterSend(rbuf[id])]
    /\ UNCHANGED <<callerVars, lockVars, sessVars, ptyVars, stopped, readChunks,
                   histVars>>
    /\ UNCHANGED resolverVars
ReaderSend(id) ==
    /\ NoneDone
    /\ rpc[id] = "send"
    /\ Len(channel) < ChanCap
    /\ channel' = Append(channel, rbuf[id])
    /\ emitted' = [emitted EXCEPT ![rbuf[id].id] = Append(@, rbuf[id])]
    /\ senderLock' = senderLock \ {id}
    /\ rbuf' = [rbuf EXCEPT ![id] = NoEvent]
    /\ rpc' = [rpc EXCEPT ![id] = AfterSend(rbuf[id])]
    /\ UNCHANGED <<callerVars, lockVars, sessVars, ptyVars, stopped, readChunks,
                   histVars>>
    /\ UNCHANGED resolverVars

\* ReaderCleanup that also kills and reaps the child of its session.
ReaderCleanup_Reap(id) ==
    /\ NoneDone
    /\ rpc[id] = "cleanup"
    /\ CanWrite
    /\ terminals' = terminals \ {id}
    /\ child' = [child EXCEPT ![id] = "reaped"]
    /\ rpc' = [rpc EXCEPT ![id] = "done"]
    /\ UNCHANGED <<callerVars, lockVars, shutdown_tx, shutdownMsg, pty_size,
                   ptyOut, produced, ptyIn, inRoom, rbuf, stopped, readChunks,
                   chanVars, histVars>>
    /\ UNCHANGED resolverVars

\* Lines 372-375: terminals.write().await; remove(&terminal_id); the guard
\* is dropped at once and the task ends.
ReaderCleanup_NoRemove(id) ==
    /\ NoneDone
    /\ rpc[id] = "cleanup"
    /\ CanWrite
    /\ terminals' = terminals
    /\ rpc' = [rpc EXCEPT ![id] = "done"]
    /\ UNCHANGED <<callerVars, lockVars, shutdown_tx, shutdownMsg, pty_size,
                   ptyVars, rbuf, stopped, readChunks, chanVars, histVars>>
    /\ UNCHANGED resolverVars
ReaderCleanup_Clear(id) ==
    /\ NoneDone
    /\ rpc[id] = "cleanup"
    /\ CanWrite
    /\ terminals' = {}
    /\ rpc' = [rpc EXCEPT ![id] = "done"]
    /\ UNCHANGED <<callerVars, lockVars, shutdown_tx, shutdownMsg, pty_size,
                   ptyVars, rbuf, stopped, readChunks, chanVars, histVars>>
    /\ UNCHANGED resolverVars
ReaderCleanup(id) ==
    /\ NoneDone
    /\ rpc[id] = "cleanup"
    /\ CanWrite
    /\ terminals' = terminals \ {id}
    /\ rpc' = [rpc EXCEPT ![id] = "done"]
    /\ UNCHANGED <<callerVars, lockVars, shutdown_tx, shutdownMsg, pty_size,
                   ptyVars, rbuf, stopped, readChunks, chanVars, histVars>>
    /\ UNCHANGED resolverVars

\* ------------------------------------------------------------ lib.rs: run
\* Line 223: event_receiver.recv().await takes the oldest event.
ConsumerRecv ==
    /\ NoneDone
    /\ channel # <<>>
    /\ channel' = Tail(channel)
    /\ UNCHANGED <<callerVars, lockVars, sessVars, ptyVars, readerVars, senderLock,
                   emitted, histVars>>
    /\ UNCHANGED resolverVars

\* ------------------------------------------------- the child behind the PTY
\* The shell prints a byte.
ChildOutput(id) ==
    /\ NoneDone
    /\ child[id] = "running"
    /\ PtyOpen(id)
    /\ stimuli > 0
    /\ stimuli' = stimuli - 1
    /\ produced' = produced + 1
    /\ ptyOut' = [ptyOut EXCEPT ![id] = Append(@, OutByte(produced + 1))]
    /\ UNCHANGED <<pc, op, result, rem, lockVars, sessVars, child, ptyIn, inRoom,
                   readerVars, chanVars, histVars>>
    /\ UNCHANGED resolverVars

\* The shell reads a byte of its input.
ChildInput(id) ==
    /\ NoneDone
    /\ child[id] = "running"
    /\ inRoom[id] < PtyCap
    /\ inRoom' = [inRoom EXCEPT ![id] = @ + 1]
    /\ UNCHANGED <<callerVars, lockVars, sessVars, child, ptyOut, produced, ptyIn,
                   readerVars, chanVars, histVars>>
    /\ UNCHANGED resolverVars

\* The shell exits by itself.
ChildExit(id) ==
    /\ NoneDone
    /\ child[id] = "running"
    /\ stimuli > 0
    /\ stimuli' = stimuli - 1
    /\ child' = [child EXCEPT ![id] = "exited"]
    /\ UNCHANGED <<pc, op, result, rem, lockVars, sessVars, ptyOut, produced, ptyIn,
                   inRoom, readerVars, chanVars, histVars>>
    /\ UNCHANGED resolverVars

\* ------------------------------------------------------------ specification
CallerStep(p) ==
    \/ CallCreate(p) \/ CallWrite(p) \/ CallResize(p) \/ CallClose(p)
    \/ LockManager(p) \/ Return(p)
    \/ CreateFail(p) \/ CreateSetup(p) \/ CreateInsert(p) \/ CreateReturn(p)
    \/ WriteLookup(p) \/ WriteLockSession(p) \/ WriteAll(p) \/ WriteFail(p) \/ WriteFlush(p)
    \/ ResizeLookup(p) \/ ResizeLockSession(p) \/ ResizeLockMaster(p)
    \/ ResizeApply(p) \/ ResizeFail(p)
    \/ CloseRemove(p) \/ CloseLockSession(p) \/ CloseSignal(p) \/ CloseKill(p)

ReaderStep(id) ==
    \/ ReaderShutdown(id) \/ ReaderPoll(id)
    \/ ReaderReadEof(id) \/ ReaderReadData(id) \/ ReaderWouldBlock(id) \/ ReaderReadError(id)
    \/ ReaderLockSender(id) \/ ReaderSend(id) \/ ReaderCleanup(id)

ChildStep(id) == ChildOutput(id) \/ ChildInput(id) \/ ChildExit(id)

Next ==
    \/ \E p \in Callers : CallerStep(p)
    \/ \E id \in Ids : ReaderStep(id)
    \/ \E id \in Ids : ChildStep(id)
    \/ ConsumerRecv

Spec == Init /\ [][Next]_vars

\* --------------------------------------------------------------- scheduling
\* The steps of a handler that the runtime takes once they can be taken.
\* tokio's Mutex and RwLock serve their waiters in order, so a handler that
\* can take a lock again and again does take it.  A write goes on when the
\* PTY has room, and fails once the child side of the PTY is gone; no other
\* failure has to happen, and no command has to be invoked.
HandlerProgress(p) ==
    \/ LockManager(p) \/ Return(p)
    \/ CreateSetup(p) \/ CreateInsert(p) \/ CreateReturn(p)
    \/ WriteLookup(p) \/ WriteLockSession(p) \/ WriteAll(p) \/ WriteFlush(p)
    \/ (pc[p] \in {"write_all", "write_flush"} /\ child[op[p].id] # "running" /\ WriteFail(p))
    \/ ResizeLookup(p) \/ ResizeLockSession(p) \/ ResizeLockMaster(p) \/ ResizeApply(p)
    \/ CloseRemove(p) \/ CloseLockSession(p) \/ CloseSignal(p) \/ CloseKill(p)

\* Handlers are tokio tasks, a reader runs on a thread of tokio's blocking
\* pool (line 306), and the consumer of lib.rs 223
\* keeps receiving; the children behind the PTYs owe nothing: a shell need
\* not print, read its input or exit.
Fairness ==
    /\ \A p \in Callers : SF_vars(HandlerProgress(p))
    /\ \A id \in Ids : SF_vars(ReaderStep(id))
    /\ SF_vars(ConsumerRecv)

\* The same program under fair scheduling.  Two sessions interfere only
\* after two creates, a command and an exit: one stimulus more than Spec has.
FairInit == NewManager(MaxStimuli + 1) /\ NoCommand
FairSpec == FairInit /\ [][Next]_vars /\ Fairness

\* The same program with room for five stimuli: two sessions, a command on
\* each, and an exit.
WideInit == NewManager(MaxStimuli + 2) /\ NoCommand
WideSpec == WideInit /\ [][Next]_vars

\* ------------------------------------------ the command of a create, alone
\* A create on any host with any options, up to the spawn of line 130.
CommandInit ==
    /\ NewManager(0)
    /\ options \in Options
    /\ host \in Hosts
    /\ shell = None
    /\ cmd_env = None
    /\ cmd_args = None

\* Line 74: let shell = self.get_shell_command(&options).
ResolveShell ==
    /\ shell = None
    /\ shell' = Some(GetShellCommand(options, host))
    /\ UNCHANGED <<sessionVars, options, host, cmd_env, cmd_args>>

\* Lines 92-126: the command, its arguments and its environment are built.
BuildCommand ==
    /\ shell # None
    /\ cmd_env = None
    /\ cmd_env' = Some(CommandEnv(options, host))
    /\ cmd_args' = Some(CommandArgs(shell[1]))
    /\ UNCHANGED <<sessionVars, options, host, shell>>

CommandNext == ResolveShell \/ BuildCommand

CommandSpec == CommandInit /\ [][CommandNext]_vars

\* ------------------------------------------------------------------ claims
\* Where write, resize and close look their id up in the registry.
LookupPcs == {"write_lookup", "resize_lookup", "close_remove"}

\* C1: a write, resize or close whose id is not in the registry when it
\* looks it up returns not-found in that step, and the step changes neither
\* the registry, nor any session's state or locks, nor the event channel.
C1_UnknownIdNotFound ==
    [][\A p \in Callers :
          (pc[p] \in LookupPcs /\ op[p].id \notin terminals /\ pc'[p] # pc[p])
          => /\ pc'[p] = "done"
             /\ result'[p] = NotFound
             /\ UNCHANGED <<sessVars, ptyVars, readerVars, chanVars, sessLock, masterLock>>]_vars

\* A write on the id of a session that its reader has removed, and that
\* nobody closed, was answered not-found.
C1_Witness ==
    \E p \in Callers :
        /\ pc[p] = "done" /\ op[p].kind = "write" /\ result[p] = NotFound
        /\ op[p].id \in Ids \ closedOk
        /\ rpc[op[p].id] = "done"

\* C2: once close_terminal(id) has returned Ok, every write, resize and
\* close that looks id up afterwards returns not-found.
C2_ClosedStaysClosed ==
    [][\A p \in Callers :
          (pc[p] \in LookupPcs /\ op[p].id \in closedOk /\ pc'[p] # pc[p])
          => (pc'[p] = "done" /\ result'[p] = NotFound)]_vars

\* A second close of a closed id was answered not-found.
C2_Witness ==
    \E p \in Callers :
        /\ pc[p] = "done" /\ op[p].kind = "close" /\ result[p] = NotFound
        /\ op[p].id \in closedOk

\* C3: the ids create_terminal has returned are pairwise different and none
\* is the empty id; the id a create is about to insert is not in the
\* registry.
C3_IdsNeverReused ==
    /\ \A i, j \in 1 .. Len(returned) : i # j => returned[i] # returned[j]
    /\ \A i \in 1 .. Len(returned) : returned[i] # BogusId
    /\ \A p \in Callers : pc[p] = "create_insert" => op[p].id \notin terminals

\* A second id was returned after the session of the first was closed.
C3_Witness ==
    /\ Len(returned) = 2
    /\ returned[1] \in closedOk

\* C4: a create_terminal that fails returns the error in that step, and the
\* step leaves the registry and every reader task as they were; the
\* attempted id is not registered and has no reader.
C4_FailedCreateRegistersNothing ==
    [][\A p \in Callers :
          (pc[p] = "create_setup" /\ pc'[p] = "done")
          => /\ result'[p].tag = "SetupError"
             /\ UNCHANGED <<terminals, rpc>>
             /\ result'[p].id \notin terminals'
             /\ rpc'[result'[p].id] = "none"]_vars

\* A create failed after its child was spawned while a session is registered.
C4_Witness ==
    \E p \in Callers :
        /\ pc[p] = "done" /\ op[p].kind = "create" /\ result[p].tag = "SetupError"
        /\ child[result[p].id] = "running"
        /\ terminals # {}

\* The events of a history that end a session, and those that carry output.
RECURSIVE TerminalCount(_)
TerminalCount(evs) ==
    IF evs = <<>> THEN 0
    ELSE (IF Head(evs).type \in {"Exit", "Error"} THEN 1 ELSE 0) + TerminalCount(Tail(evs))

RECURSIVE OutputCount(_)
OutputCount(evs) ==
    IF evs = <<>> THEN 0
    ELSE (IF Head(evs).type = "Output" THEN 1 ELSE 0) + OutputCount(Tail(evs))

\* The data of the Output events of a history, concatenated in order.
RECURSIVE OutputBytes(_)
OutputBytes(evs) ==
    IF evs = <<>> THEN <<>>
    ELSE (IF Head(evs).type = "Output" THEN Head(evs).data ELSE <<>>) \o OutputBytes(Tail(evs))

RECURSIVE Flatten(_)
Flatten(chunks) == IF chunks = <<>> THEN <<>> ELSE Head(chunks) \o Flatten(Tail(chunks))

\* The bytes a reader has read and not yet handed to the channel.
PendingBytes(id) == IF rbuf[id].type = "Output" THEN rbuf[id].data ELSE <<>>

\* C5: a session whose reader has ended on EOF or a read error and that
\* nobody closed has emitted exactly one Exit or Error, and a session that
\* close_terminal ended (it removed the session before the reader saw an
\* end, and returned Ok) has emitted none.
C5_CloseEmitsNothing ==
    \A id \in Ids :
        /\ (rpc[id] = "done" /\ stopped[id] \in {"eof", "error"} /\ id \notin closedOk)
           => TerminalCount(emitted[id]) = 1
        /\ (id \in closedOk /\ id \in closedLive) => TerminalCount(emitted[id]) = 0

\* C6: in the events enqueued under one id, only the last can be an Exit or
\* an Error: nothing follows a terminal event.
C6_TerminalEventIsLast ==
    \A id \in Ids : \A i \in 1 .. Len(emitted[id]) :
        i < Len(emitted[id]) => emitted[id][i].type = "Output"

\* Output followed by the terminal event of the same session.
C6_Witness ==
    \E id \in Ids :
        /\ Len(emitted[id]) >= 2
        /\ emitted[id][Len(emitted[id])].type \in {"Exit", "Error"}

\* C7 as stated: at every moment the Output data enqueued under an id is
\* exactly the bytes its reader has read.
C7_EnqueuedEqualsRead ==
    \A id \in Ids : OutputBytes(emitted[id]) = Flatten(readChunks[id])

\* C7, amended: the Output data enqueued under an id, followed by the chunk
\* its reader holds for sending, is exactly the bytes the reader has read;
\* every event enqueued under an id carries that id.
C7_EnqueuedPlusPendingEqualsRead ==
    \A id \in Ids :
        /\ OutputBytes(emitted[id]) \o PendingBytes(id) = Flatten(readChunks[id])
        /\ \A i \in 1 .. Len(emitted[id]) : emitted[id][i].id = id

\* Two bytes read and enqueued, nothing pending.
C7_Witness ==
    \E id \in Ids :
        /\ Len(OutputBytes(emitted[id])) = 2
        /\ rbuf[id] = NoEvent
        /\ rpc[id] \in {"top", "read"}

\* C8: in the bytes that reached a PTY, every byte of a write after its
\* first directly follows the previous byte of the same write.
C8_WritesContiguous ==
    \A id \in Ids : \A i \in 1 .. Len(ptyIn[id]) :
        ptyIn[id][i][2] > 1
        => /\ i > 1
           /\ ptyIn[id][i - 1][1] = ptyIn[id][i][1]
           /\ ptyIn[id][i - 1][2] = ptyIn[id][i][2] - 1

\* One write is between its two bytes while another write on the same id
\* has been invoked.
C8_Witness ==
    \E p, q \in Callers :
        /\ p # q
        /\ op[p].kind = "write" /\ op[q].kind = "write" /\ op[p].id = op[q].id
        /\ pc[p] = "write_all" /\ Len(rem[p]) = 1
        /\ pc[q] = "manager"

\* write_all waits for room in the PTY input queue.
WriteBlocked(p) == pc[p] = "write_all" /\ inRoom[op[p].id] = 0

\* C9 as stated: while a write on session A is blocked on a full PTY, an
\* invoked create of a new session, or an invoked command on another
\* registered session B, can take its next step.
C9_SessionsIndependent ==
    \A p, q \in Callers :
        (/\ WriteBlocked(p)
         /\ pc[q] = "manager"
         /\ op[q].kind = "create" \/ op[q].id \in terminals \ {op[p].id})
        => ENABLED LockManager(q)

\* C10: the channel holds at most ChanCap events; a reader sending to a
\* full channel cannot complete its send; and every chunk a reader has read
\* is enqueued as one Output event or is the one it is waiting to send, so
\* that a reader reads again only after its event was accepted.
C10_Backpressure ==
    /\ Len(channel) <= ChanCap
    /\ \A id \in Ids :
          /\ (rpc[id] = "send" /\ Len(channel) = ChanCap) => ~ ENABLED ReaderSend(id)
          /\ Len(readChunks[id]) =
                OutputCount(emitted[id]) + (IF rbuf[id].type = "Output" THEN 1 ELSE 0)
          /\ rbuf[id].type = "Output" => rpc[id] \in {"lock_sender", "send"}

\* The channel is full and a reader that has read bytes waits in send.
C10_Witness ==
    /\ Len(channel) = ChanCap
    /\ \E id \in Ids : rpc[id] = "send" /\ rbuf[id].type = "Output"

\* Where write_all, flush and the PTY resize call can fail.
IoPcs == {"write_all", "write_flush", "resize_apply"}

\* C11: a write or resize that fails in write_all, flush or the PTY resize
\* call returns the error in that step; the step leaves the registry as it
\* was, with the session's id still in it, and leaves the session's shutdown
\* sender, child and reader as they were.
C11_IoErrorKeepsSession ==
    [][\A p \in Callers :
          (pc[p] \in IoPcs /\ pc'[p] = "done" /\ result'[p] # Ok)
          => /\ result'[p] = IoError
             /\ op[p].id \in terminals'
             /\ UNCHANGED <<terminals, shutdown_tx, shutdownMsg, child, readerVars>>]_vars

\* A resize failed on a session that is still registered, its reader running.
C11_Witness ==
    \E p \in Callers :
        /\ pc[p] = "done" /\ op[p].kind = "resize" /\ result[p] = IoError
        /\ op[p].id \in terminals
        /\ rpc[op[p].id] \in {"top", "read"}

\* A session exists once create has inserted it and started its reader.
Created(id) == rpc[id] # "none"

\* The reader of id has seen EOF or an unrecoverable read error.
ObservedEnd(id) == stopped[id] \in {"eof", "error"}

\* A close_terminal has removed id from the registry.
ClosedBy(id) ==
    \/ id \in closedOk
    \/ \E p \in Callers :
          /\ op[p].kind = "close" /\ op[p].id = id
          /\ pc[p] \in {"close_lock", "close_signal", "close_kill"}

\* C12 as stated: a session is in the registry if and only if its reader has
\* not yet observed termination or it has not yet been closed.
C12_RegisteredIffNotEndedOrNotClosed ==
    \A id \in Ids :
        Created(id) => (id \in terminals <=> (~ ObservedEnd(id) \/ ~ ClosedBy(id)))

\* C12, amended: a session is in the registry if and only if no close has
\* removed it and its reader has not yet run its cleanup.
C12_RegisteredIffNotClosedNorCleaned ==
    \A id \in Ids :
        /\ Created(id) => (id \in terminals <=> (~ ClosedBy(id) /\ rpc[id] # "done"))
        /\ ~ Created(id) => id \notin terminals

\* A session whose reader has seen the end and sent its event, still
\* registered because the reader has not removed it yet.
C12_Witness ==
    \E id \in terminals : ObservedEnd(id) /\ rpc[id] = "cleanup"

\* A session is Terminated once it was closed, or once its reader has seen
\* EOF or an unrecoverable read error and its Exit or Error is enqueued.
Terminated(id) ==
    \/ ClosedBy(id)
    \/ ObservedEnd(id) /\ TerminalCount(emitted[id]) > 0

\* C13: a write or resize that returns success was on a session that is not
\* Terminated.
C13_SuccessOnlyWhenRunning ==
    \A p \in Callers :
        (pc[p] = "done" /\ op[p].kind \in {"write", "resize"} /\ result[p] = Ok)
        => ~ Terminated(op[p].id)

\* C14: a successful close_terminal(id) first removes id from the registry,
\* then sends the shutdown signal, then kills and waits for the child; when it
\* returns id is absent from the registry and the child is killed and reaped.
C14_CloseOrder ==
    \A p \in Callers :
        op[p].kind = "close" =>
            /\ pc[p] \in {"close_lock", "close_signal"}
               => /\ op[p].id \notin terminals
                  /\ shutdown_tx[op[p].id] = "some"
                  /\ child[op[p].id] # "reaped"
            /\ pc[p] = "close_kill"
               => /\ op[p].id \notin terminals
                  /\ shutdown_tx[op[p].id] = "dropped"
                  /\ child[op[p].id] # "reaped"
            /\ (pc[p] = "done" /\ result[p] = Ok)
               => /\ op[p].id \notin terminals
                  /\ shutdown_tx[op[p].id] = "dropped"
                  /\ child[op[p].id] = "reaped"

\* A close has returned success for a session whose shell was still running
\* when the close removed it.
C14_Witness ==
    \E p \in Callers :
        /\ pc[p] = "done" /\ op[p].kind = "close" /\ result[p] = Ok
        /\ op[p].id \in closedLive
        /\ child[op[p].id] = "reaped"

\* C15: once a session's reader has observed EOF or an unrecoverable read
\* error, the session is eventually removed from the registry, the event
\* consumer draining the channel; from then on write, resize and close on
\* its id return not-found.
C15_EndedSessionIsRemoved ==
    /\ \A id \in Ids : ObservedEnd(id) ~> (id \notin terminals)
    /\ [][\A p \in Callers :
             (pc[p] \in LookupPcs /\ pc'[p] # pc[p]
                /\ op[p].id \in Ids /\ rpc[op[p].id] = "done")
             => result'[p] = NotFound]_vars

\* What belongs to one session.
SessionState(id) ==
    <<id \in terminals, shutdown_tx[id], shutdownMsg[id], child[id], pty_size[id],
      ptyOut[id], ptyIn[id], inRoom[id], sessLock[id], masterLock[id],
      rpc[id], rbuf[id], stopped[id], emitted[id]>>

\* Session a fails in this step: its reader observes EOF or a read error,
\* or goes from there to its cleanup and end, or a command on a returns an
\* error.
FailureStep(a) ==
    \/ stopped[a] = "no" /\ stopped'[a] \in {"eof", "error"}
    \/ ObservedEnd(a) /\ rpc'[a] # rpc[a]
    \/ \E p \in Callers :
          /\ pc[p] # "done" /\ pc'[p] = "done"
          /\ op[p].id = a /\ result'[p] \in {NotFound, IoError}

\* C16: a step in which session A fails removes at most A from the registry,
\* emits only events tagged with A's id, and leaves every other session's
\* registration, handles and reader as they were.
C16_FailureScopedToId ==
    [][\A a \in Ids :
          FailureStep(a)
          => /\ terminals \ {a} = terminals' \ {a}
             /\ \A b \in Ids \ {a} : SessionState(b)' = SessionState(b)
             /\ \A i \in 1 .. Len(emitted'[a]) : emitted'[a][i].id = a]_vars

\* Session a ended by itself and was cleaned up while another session is
\* registered with its reader at work.
C16_Witness ==
    \E a \in Ids, b \in terminals :
        /\ a # b
        /\ ObservedEnd(a) /\ rpc[a] = "done" /\ a \notin terminals
        /\ rpc[b] \in {"top", "read"} /\ child[b] = "running"

\* Every string the resolver's inputs and its code hold.
CommandStrings ==
    Paths \cup {GoneZsh, HomeBashirZsh, "fish", "powershell.exe", "cmd.exe", "sh"}

\* C17: with an explicit shell in the options the resolver returns exactly
\* that string, whatever exists and whatever SHELL is; for every input it
\* returns some command string.
C17_ExplicitShellVerbatim ==
    shell # None
    => /\ Len(shell) = 1 /\ shell[1] \in CommandStrings
       /\ options.shell # None => shell = options.shell

\* An explicit shell that no file of the host matches was returned although
\* /bin/bash exists and SHELL is set.
C17_Witness ==
    /\ shell = Some("fish")
    /\ options.shell = Some("fish")
    /\ ~ host.windows
    /\ BinBash \in host.exists
    /\ host.env["SHELL"] = Some(BinZsh)

\* The first candidate of a chain of <<available, command>> pairs that is
\* available.
FirstOf(chain) ==
    chain[CHOOSE i \in 1 .. Len(chain) :
              chain[i][1] /\ \A j \in 1 .. i - 1 : ~ chain[j][1]][2]

ShellVar(h) == IF h.env["SHELL"] # None THEN h.env["SHELL"][1] ELSE ""

\* The chain of a non-Windows host; ok tells when the SHELL candidate counts.
UnixChain(h, ok) ==
    << <<BinBash \in h.exists, BinBash>>,
       <<UsrBinBash \in h.exists, UsrBinBash>>,
       <<UsrLocalBinBash \in h.exists, UsrLocalBinBash>>,
       <<ok, ShellVar(h)>>,
       <<BinSh \in h.exists, BinSh>>,
       <<TRUE, "sh">> >>

\* C18 as stated: with no explicit shell on a non-Windows host the resolver
\* returns the first candidate that exists, of /bin/bash, /usr/bin/bash,
\* /usr/local/bin/bash, the value of SHELL, /bin/sh, and at last sh.
C18_FirstExistingCandidate ==
    (shell # None /\ options.shell = None /\ ~ host.windows)
    => shell[1] = FirstOf(UnixChain(host, ShellVar(host) \in host.exists))

\* C18: with no explicit shell on a non-Windows host the resolver returns the
\* first of: /bin/bash, /usr/bin/bash, /usr/local/bin/bash if that file
\* exists; the value of SHELL if the variable is set, whether or not it names
\* an existing file; /bin/sh if it exists; sh.
C18_FirstAvailableCandidate ==
    (shell # None /\ options.shell = None /\ ~ host.windows)
    => shell[1] = FirstOf(UnixChain(host, host.env["SHELL"] # None))

\* No bash exists, /bin/sh does, and SHELL names a file that does not exist:
\* the resolver returned the value of SHELL.
C18_Witness ==
    /\ shell = Some(GoneZsh)
    /\ options.shell = None
    /\ ~ host.windows
    /\ host.exists \cap {BinBash, UsrBinBash, UsrLocalBinBash} = {}
    /\ BinSh \in host.exists
    /\ host.env["SHELL"] = Some(GoneZsh)

\* C19: the environment the shell is spawned with has TERM equal to
\* xterm-256color, also when the caller supplied a TERM, and always has a
\* PATH: the caller's when one was supplied, otherwise the host process's.
C19_TermForcedPathGuaranteed ==
    cmd_env # None
    => /\ cmd_env[1]["TERM"] = Some("xterm-256color")
       /\ cmd_env[1]["PATH"] # None
       /\ cmd_env[1]["PATH"] = IF HasPath(options) THEN options.env[1]["PATH"]
                               ELSE host.env["PATH"]

\* The ids create_terminal has returned.
ReturnedIds == {returned[i] : i \in 1 .. Len(returned)}

\* C20 as stated: a write or close on an id that create returned, whose
\* session nobody else closed and whose reader saw no end, returns success.
C20_WriteAndCloseSucceed ==
    \A p \in Callers :
        (pc[p] = "done" /\ op[p].kind \in {"write", "close"} /\ op[p].id \in ReturnedIds)
        => \/ result[p] = Ok
           \/ ClosedBy(op[p].id)
           \/ ObservedEnd(op[p].id)

\* A session create returned that nobody closed and no reader cleaned up.
Serving(id) == id \in ReturnedIds /\ ~ ClosedBy(id) /\ rpc[id] # "done"

\* C20: an id that create returned is in the registry as long as the session
\* is neither closed nor cleaned up by its reader; a write or close that
\* looks such an id up finds it; the write then returns success or, when the
\* PTY refuses the bytes, an I/O error that leaves the session registered;
\* the close then returns success.
C20_CreatedIdServes ==
    /\ [](\A id \in Ids : Serving(id) => id \in terminals)
    /\ [][\A p \in Callers :
             /\ (pc[p] \in {"write_lookup", "close_remove"} /\ pc'[p] # pc[p]
                   /\ Serving(op[p].id))
                => pc'[p] # "done"
             /\ (pc[p] \in {"write_all", "write_flush"} /\ pc'[p] = "done")
                => /\ result'[p] \in {Ok, IoError}
                   /\ op[p].id \in terminals'
             /\ (pc[p] = "close_kill" /\ pc'[p] = "done")
                => result'[p] = Ok]_vars

\* A first close returned success on a session whose PTY had taken both
\* bytes of an earlier write.
C20_Witness ==
    \E p \in Callers :
        /\ pc[p] = "done" /\ op[p].kind = "close" /\ result[p] = Ok
        /\ op[p].id \in ReturnedIds
        /\ Len(ptyIn[op[p].id]) = 2

\* C21: a resize that returns success changes the addressed session's PTY
\* size and nothing else of any session: the registry, the event channel and
\* what was enqueued, and the output that is not yet read stay as they were.
C21_ResizeChangesOnlySize ==
    [][\A p \in Callers :
          (pc[p] = "resize_apply" /\ pc'[p] = "done" /\ result'[p] = Ok)
          => /\ pty_size'[op[p].id] = op[p].size
             /\ \A b \in Ids \ {op[p].id} : pty_size'[b] = pty_size[b]
             /\ UNCHANGED <<terminals, shutdown_tx, shutdownMsg, ptyVars,
                            readerVars, chanVars>>]_vars

\* A resize returned success and set the new size while output of the
\* session was waiting to be read.
C21_Witness ==
    \E p \in Callers :
        /\ pc[p] = "done" /\ op[p].kind = "resize" /\ result[p] = Ok
        /\ op[p].id \in terminals
        /\ pty_size[op[p].id] = op[p].size /\ op[p].size # DefaultSize
        /\ ptyOut[op[p].id] # <<>>

\* A write or resize whose lookup is in progress: it holds terminals.read().
LookupInProgress(p) == p \in rwReaders
\* A write or resize that was invoked and has not yet reached its lookup.
LookupKeptOut(q) == op[q].kind \in {"write", "resize"} /\ pc[q] = "manager"

\* C22: an insertion or removal excludes every other access to the registry,
\* while the lookups of write and resize calls do not exclude each other: no
\* write or resize is kept from its lookup while another one's is in progress.
C22_LookupsShareWritersExclude ==
    /\ Cardinality(rwWriter) <= 1
    /\ rwWriter # {} => rwReaders = {}
    /\ \A p, q \in Callers : LookupInProgress(p) => ~ LookupKeptOut(q)

\* Handler q waits in write_all on a PTY whose input queue is full and whose
\* child runs: it goes on only if the child reads or exits, which no child
\* has to do.
WriteStuck(q) == WriteBlocked(q) /\ child[op[q].id] = "running"

\* A close of id is in progress while id's reader, having seen EOF or a read
\* error, has not yet finished its cleanup.
CloseRacesCleanup(p) ==
    /\ op[p].kind = "close" /\ pc[p] \notin {"idle", "done"}
    /\ op[p].id \in Ids
    /\ ObservedEnd(op[p].id) /\ rpc[op[p].id] # "done"

\* C23: when close_terminal(id) races with the cleanup of id's reader, the
\* close returns success or not-found, the id is absent once either of them
\* is through, and neither is kept waiting without end: the close never
\* waits for a lock whose holder is stuck.
C23_CloseAndCleanupRace ==
    /\ \A p \in Callers :
          (pc[p] = "done" /\ op[p].kind = "close") => result[p] \in {Ok, NotFound}
    /\ \A id \in Ids : (id \in closedOk \/ rpc[id] = "done") => id \notin terminals
    /\ \A p, q \in Callers :
          (CloseRacesCleanup(p) /\ pc[p] = "manager") => ~ (q \in manager /\ WriteStuck(q))

\* Where a handler uses the session's handles: the writer, the PTY master,
\* the shutdown sender, the child.
HandlePcs == {"write_all", "write_flush", "resize_master", "resize_apply",
              "close_signal", "close_kill"}

\* C24: a write, resize or close that uses a session's handles holds that
\* session's lock, and it holds it alone: no close takes the shutdown sender
\* or kills the child while a write or resize on the same id has the lock.
C24_OneHolderOfHandles ==
    /\ \A id \in Ids : Cardinality(sessLock[id]) <= 1
    /\ \A p \in Callers : pc[p] \in HandlePcs => sessLock[op[p].id] = {p}
    /\ \A p, q \in Callers :
          (p # q /\ pc[p] \in HandlePcs /\ pc[q] \in HandlePcs) => op[p].id # op[q].id

\* A close is about to kill the child, holding the session lock, while a
\* write on the same id has been invoked and waits.
C24_Witness ==
    \E p, q \in Callers :
        /\ pc[p] = "close_kill" /\ sessLock[op[p].id] = {p}
        /\ op[q].kind = "write" /\ op[q].id = op[p].id /\ pc[q] = "manager"

\* One Output event per chunk, in order, each with the chunk's bytes.
Outputs(id, chunks) == [i \in 1 .. Len(chunks) |-> Output(id, chunks[i])]

\* The chunks whose event the reader has handed to the channel: all it read,
\* but for the one it still holds.
SentChunks(id) ==
    IF rbuf[id].type = "Output"
    THEN SubSeq(readChunks[id], 1, Len(readChunks[id]) - 1)
    ELSE readChunks[id]

\* The event that ends a reader's events, once it is sent.
LastEvent(id) ==
    IF rpc[id] \in {"cleanup", "done"} /\ stopped[id] = "eof" THEN <<Exit(id)>>
    ELSE IF rpc[id] \in {"cleanup", "done"} /\ stopped[id] = "error" THEN <<Error(id)>>
    ELSE <<>>

\* C25: every read outcome of a reader has exactly one effect.  Zero bytes:
\* one Exit, and the reader stops.  N > 0 bytes: one Output with those N
\* bytes, and it reads on.  Would-block: no event, no change of the registry,
\* and it reads on.  Another error: one Error, and the reader stops.
C25_OneStepPerReadOutcome ==
    /\ [](\A id \in Ids :
            /\ emitted[id] = Outputs(id, SentChunks(id)) \o LastEvent(id)
            /\ rbuf[id].type = "Output"
               => rbuf[id] = Output(id, readChunks[id][Len(readChunks[id])])
            /\ stopped[id] # "no" => rpc[id] \notin {"top", "read"}
            /\ (stopped[id] = "eof" /\ rpc[id] \in {"lock_sender", "send"})
               => rbuf[id] = Exit(id)
            /\ (stopped[id] = "error" /\ rpc[id] \in {"lock_sender", "send"})
               => rbuf[id] = Error(id))
    /\ [][\A id \in Ids :
             (rpc[id] = "read" /\ rpc'[id] # "read")
             => IF ptyOut[id] # <<>>
                THEN /\ rpc'[id] = "lock_sender"
                     /\ rbuf'[id].type = "Output" /\ rbuf'[id].data # <<>>
                     /\ rbuf'[id].data \o ptyOut'[id] = ptyOut[id]
                     /\ stopped'[id] = "no"
                ELSE IF child[id] = "running"
                THEN /\ rpc'[id] = "top"
                     /\ UNCHANGED <<terminals, channel, emitted, rbuf, stopped>>
                ELSE /\ rpc'[id] = "lock_sender"
                     /\ stopped'[id] \in {"eof", "error"}
                     /\ rbuf'[id] = IF stopped'[id] = "eof" THEN Exit(id) ELSE Error(id)]_vars

\* A reader read a chunk, sent its Output, then read zero bytes, sent its
\* Exit and stopped.
C25_Witness ==
    \E id \in Ids :
        /\ Len(readChunks[id]) = 1
        /\ emitted[id] = <<Output(id, readChunks[id][1]), Exit(id)>>
        /\ rpc[id] = "cleanup"

\* A close of id has removed it and has not yet returned.
CloseInProgress(id) ==
    \E p \in Callers :
        op[p].kind = "close" /\ op[p].id = id
        /\ pc[p] \in {"close_lock", "close_signal", "close_kill"}

\* C26: a reader stops for the shutdown signal only at the top of its loop;
\* a reader that is past it, in its read or handing over an event, takes no
\* signal and does not stop for one until it is back at the top; and a reader
\* that was at work when close sent the signal does not end before the
\* close has returned.
C26_ShutdownTestedAtLoopTop ==
    [][\A id \in Ids :
          /\ (stopped[id] # "shutdown" /\ stopped'[id] = "shutdown") => rpc[id] = "top"
          /\ (rpc[id] \in {"read", "lock_sender", "send"} /\ rpc'[id] # rpc[id])
             => /\ shutdownMsg'[id] >= shutdownMsg[id]
                /\ stopped'[id] # "shutdown"
          /\ (rpc[id] # "done" /\ rpc'[id] = "done") => ~ CloseInProgress(id)]_vars

\* The close has returned, its signal is in the shutdown channel, and the
\* reader is still inside its read.
C26_Witness ==
    \E id \in Ids :
        /\ id \in closedOk
        /\ \A p \in Callers : pc[p] = "idle"
        /\ shutdownMsg[id] = 1
        /\ rpc[id] = "read" /\ stopped[id] = "no"

\* C27: once close_terminal(id) has killed the child and returned, the
\* reader of id, its read returning and the consumer draining the channel,
\* eventually leaves its loop and finishes its cleanup.
C27_ClosedReaderEnds ==
    \A id \in Ids : (id \in closedOk) ~> (rpc[id] = "done")

\* C28: the shutdown signal of a session is sent at most once: a message
\* enters the shutdown channel only in a step that uses the sender up, and a
\* sender used up stays so; and the send never blocks the close: whenever a
\* close is about to send, the sender is there and the channel is empty.
C28_ShutdownSentAtMostOnce ==
    /\ [](\A id \in Ids :
            /\ shutdownMsg[id] <= ShutdownCap
            /\ \A p \in Callers :
                  (pc[p] = "close_signal" /\ op[p].id = id)
                  => shutdown_tx[id] = "some" /\ shutdownMsg[id] = 0)
    /\ [][\A id \in Ids :
             /\ shutdownMsg'[id] > shutdownMsg[id]
                => shutdown_tx[id] = "some" /\ shutdown_tx'[id] = "dropped"
             /\ shutdown_tx[id] = "dropped" => shutdown_tx'[id] = "dropped"]_vars

\* A close of an id sent the signal and returned success; a second close of
\* the id was answered not-found and sent nothing.
C28_Witness ==
    \E p \in Callers :
        /\ pc[p] = "done" /\ op[p].kind = "close" /\ result[p] = NotFound
        /\ op[p].id \in closedOk
        /\ shutdown_tx[op[p].id] = "dropped"
        /\ shutdownMsg[op[p].id] = 1

\* C29: every id in the registry has a reader that has not finished its
\* cleanup; a session's reader starts in the step of create_terminal that
\* inserts the id, and only there; a reader that has ended does not start
\* again.
C29_RegisteredHasLiveReader ==
    /\ [](\A id \in terminals : rpc[id] \notin {"none", "done"})
    /\ [][\A id \in Ids :
             /\ (rpc[id] = "none" /\ rpc'[id] # "none")
                => /\ rpc'[id] = "top"
                   /\ id \notin terminals /\ id \in terminals'
                   /\ \E p \in Callers :
                         op[p].kind = "create" /\ op[p].id = id /\ pc[p] = "create_insert"
             /\ rpc[id] # "none" => rpc'[id] # "none"
             /\ rpc[id] = "done" => rpc'[id] = "done"]_vars

\* Two sessions are registered, and each has its own reader at work.
C29_Witness ==
    /\ terminals = Ids
    /\ \A id \in Ids : rpc[id] \in {"top", "read"}
    /\ \E id \in Ids : rpc[id] = "read"

\* The name of the program a command string runs: what follows its last "/".
ProgramName(text) ==
    LET slashes == {i \in 1..Len(text) : text[i] = "/"}
        last == IF slashes = {} THEN 0
                ELSE CHOOSE i \in slashes : \A j \in slashes : j <= i
    IN SubSeq(text, last + 1, Len(text))
\* A bash-family shell is a command whose program is bash.
BashFamily(sh) == ProgramName(Spell(sh)) = Spell("bash")

\* C30: the command of a create gets the arguments -i and -l exactly when
\* the resolved shell is a bash-family shell, and no argument at all for
\* every other shell.
C30_BashFlagsExactlyForBash ==
    cmd_args # None
    => /\ BashFamily(shell[1]) <=> cmd_args[1] = <<"-i", "-l">>
       /\ ~ BashFamily(shell[1]) => cmd_args[1] = <<>>

\* The place of each lock in the order: 1 the manager mutex, 2 the registry
\* lock, 3 a session lock, 4 a PTY-control or child lock; 0 for no lock.
\* The lock a handler is about to take, by where it stands.
Wanted(p) ==
    CASE pc[p] = "manager" -> 1
      [] pc[p] \in {"create_insert", "close_remove", "write_lookup", "resize_lookup"} -> 2
      [] pc[p] \in {"write_lock", "resize_lock", "close_lock"} -> 3
      [] pc[p] \in {"resize_master", "close_kill"} -> 4
      [] OTHER -> 0
\* The places of the locks a handler holds.
HeldLevels(p) ==
    {l \in 1 .. 4 :
        \/ l = 1 /\ p \in manager
        \/ l = 2 /\ p \in rwWriter \cup rwReaders
        \/ l = 3 /\ \E i \in Ids : p \in sessLock[i]
        \/ l = 4 /\ \E i \in Ids : p \in masterLock[i]}
\* Who keeps a handler from the lock it is about to take.
WantedHolders(p) ==
    CASE pc[p] = "manager" -> manager
      [] pc[p] \in {"create_insert", "close_remove"} -> rwWriter \cup rwReaders
      [] pc[p] \in {"write_lookup", "resize_lookup"} -> rwWriter
      [] pc[p] \in {"write_lock", "resize_lock", "close_lock"} -> sessLock[op[p].id]
      [] pc[p] = "resize_master" -> masterLock[op[p].id]
      [] OTHER -> {}
WaitsFor(p, q) == q \in WantedHolders(p)
\* The handlers that have been invoked and whose result has not been taken.
InFlight == {p \in Callers : pc[p] # "idle"}
\* A write that waits for the child to read its input: it waits for no lock.
AwaitsChild(p) == WriteBlocked(p) /\ child[op[p].id] = "running"

\* C31: a handler that is about to take a lock holds only locks that come
\* before it in the order manager mutex, registry lock, session lock,
\* PTY-control or child lock; a reader engine that is about to take the
\* registry lock or the sender lock holds no lock; no set of handlers wait
\* for each other in a circle; and whenever handlers are in flight, one of
\* them can take its next step or waits for the child alone.
C31_LockOrderNoDeadlock ==
    /\ \A p \in Callers : Wanted(p) # 0 => \A l \in HeldLevels(p) : l < Wanted(p)
    /\ \A id \in Ids : rpc[id] \in {"cleanup", "lock_sender"} => id \notin senderLock
    /\ \A id \in senderLock : rpc[id] = "send"
    /\ \A S \in SUBSET Callers :
          S # {} => \E p \in S : \A q \in S : ~ WaitsFor(p, q)
    /\ InFlight # {}
       => \E p \in InFlight : AwaitsChild(p) \/ ENABLED HandlerProgress(p)
\* A resize holds the manager mutex, the registry lock and the session lock
\* and is about to take the PTY-control lock, while the session's reader
\* engine is kept waiting for the registry lock by it.
C31_Witness ==
    \E p \in Callers :
        /\ pc[p] = "resize_master"
        /\ HeldLevels(p) = {1, 2, 3}
        /\ rpc[op[p].id] = "cleanup"
        /\ ~ CanWrite

\* C32: a reader engine that left its loop on the shutdown signal, or on a
\* disconnected shutdown channel, has enqueued no Exit and no Error event,
\* enqueues nothing afterwards, and its one remaining step removes its own
\* id from the registry, if present, and changes nothing else of the
\* sessions.
C32_ShutdownLeavesSilently ==
    /\ [](\A id \in Ids :
            stopped[id] = "shutdown"
            => /\ \A i \in 1 .. Len(emitted[id]) : emitted[id][i].type = "Output"
               /\ rpc[id] \in {"cleanup", "done"}
               /\ rbuf[id] = NoEvent)
    /\ [][\A id \in Ids :
            stopped[id] = "shutdown"
            => /\ stopped'[id] = "shutdown"
               /\ emitted'[id] = emitted[id]
               /\ rpc'[id] # rpc[id]
                  => /\ rpc[id] = "cleanup" /\ rpc'[id] = "done"
                     /\ terminals' = terminals \ {id}
                     /\ UNCHANGED <<callerVars, lockVars, shutdown_tx, shutdownMsg,
                                    pty_size, ptyVars, chanVars, histVars>>]_vars
\* A reader engine left its loop on the shutdown signal of a close and
\* ended, while the other session stayed registered.
C32_Witness ==
    \E id \in Ids :
        /\ stopped[id] = "shutdown"
        /\ rpc[id] = "done"
        /\ id \in closedOk
        /\ terminals = Ids \ {id}

\* Where a close stands once it has taken its session out of the registry.
ClosePcs == {"close_lock", "close_signal", "close_kill"}

\* C33: a child is killed and waited for only in the last step of a close
\* of its id, which returns success; a close gets that far at most once per
\* id and never together with another close of the id; what was reaped
\* stays reaped; and the cleanup step of a reader engine leaves every child
\* as it was.
C33_KillOnlyByCloseOnce ==
    /\ [](\A p \in Callers :
            pc[p] \in ClosePcs
            => /\ op[p].kind = "close"
               /\ op[p].id \in Ids
               /\ op[p].id \notin closedOk
               /\ \A q \in Callers \ {p} : pc[q] \in ClosePcs => op[q].id # op[p].id)
    /\ [][\A id \in Ids :
            /\ (child'[id] = "reaped" /\ child[id] # "reaped")
               => \E p \in Callers :
                     /\ op[p].kind = "close" /\ op[p].id = id /\ pc[p] = "close_kill"
                     /\ result'[p] = Ok
                     /\ closedOk' = closedOk \cup {id}
            /\ child[id] = "reaped" => child'[id] = "reaped"
            /\ (rpc[id] = "cleanup" /\ rpc'[id] = "done") => child' = child]_vars
\* A child exited by itself and its reader engine saw the end; a close of
\* the id then took the entry, killed and reaped the child and returned
\* success, and the reader engine's cleanup ran after it.
C33_Witness ==
    \E id \in Ids :
        /\ stopped[id] \in {"eof", "error"}
        /\ rpc[id] = "done"
        /\ child[id] = "reaped"
        /\ id \in closedOk

\* C34: when a create_terminal has returned an error, the child of the
\* session it attempted, if one was spawned, is not running.
C34_FailedCreateLeavesNoChild ==
    \A p \in Callers :
        (pc[p] = "done" /\ op[p].kind = "create" /\ result[p].tag = "SetupError")
        => child[result[p].id] # "running"

=============================================================================
